---- MODULE Spec2Model ----
(***************************************************************************)
(* A model of package bibtex (src/bibtex.go): the BibString values         *)
(* (BibConst, *BibVar, *BibComposite), the BibEntry and BibTex containers   *)
(* and the three renderers.  Go strings are sequences of one-character     *)
(* strings; pointers are indices into per-type heaps; a Go slice is a      *)
(* header (array, len) over a backing array whose length is its capacity.  *)
(***************************************************************************)
EXTENDS Integers, Sequences, FiniteSets, TLC

VARIABLES
    bibvars,    \* heap of BibVar objects, a *BibVar is an index into it
    arrays,     \* heap of backing arrays of BibComposite slices
    comps,      \* heap of BibComposite slice headers, a *BibComposite is an index
    StringVar,  \* BibTex.StringVar: key -> *BibVar
    Preambles,  \* BibTex.Preambles
    entries,    \* heap of BibEntry objects, a *BibEntry is an index into it
    Entries,    \* BibTex.Entries: sequence of *BibEntry
    held,       \* the *BibVar pointers GetStringVar returned, each with the key asked for
    halted,     \* the process has terminated (log.Fatalf or a fatal stack overflow)
    lookup,     \* the key and the result of GetStringVar when it was the last call
    out,        \* the text the last renderer call returned, and the one before it
    limit       \* how many composites, variables, entries and preambles the
                \* caller's program creates at most

vars == <<bibvars, arrays, comps, StringVar, Preambles, entries, Entries,
          held, halted, lookup, out, limit>>

(***************************************************************************)
(* Bounds of the model.                                                    *)
(***************************************************************************)
MaxComps == 5        \* composites built in SpecComposite
MaxTableComps == 2   \* composites built in SpecTable
MaxVars == 2         \* AddStringVar calls in SpecTable
MaxEntries == 1      \* entries created, and entries added, in SpecRender
MaxRenderVars == 1   \* AddStringVar calls in SpecRender
MaxRawEntries == 2   \* entries created, and entries added, in SpecRaw
MaxRawVars == 2      \* AddStringVar calls in SpecRaw
MaxPreambles == 2    \* AddPreamble calls in SpecRaw

(***************************************************************************)
(* Inputs the caller draws from.                                           *)
(***************************************************************************)
CompositeTexts == { <<"a">>, <<"7">> }
TableTexts == { <<"a">>, <<"7">> }
RenderTexts == { <<" ", "4", "2">>, <<"4", "2", "a">>, <<" ">> }
VarKeys == { <<"k">>, <<"m">> }
EntryTypes == { <<"A", " ">> }
CiteNames == { <<"x", " ">>, <<"y">> }
FieldNames == { <<"t">>, <<" ", "y", "r">> }
RawTexts == { <<"a">>, <<"7">> }
RawCiteNames == { <<"x", " ">> }
RawFieldNames == { <<"t", " ">> }

(***************************************************************************)
(* BibString values.                                                       *)
(***************************************************************************)
Nil == [kind |-> "nil"]
BibConst(c) == [kind |-> "BibConst", text |-> c]
BibConstPtr(c) == [kind |-> "*BibConst", text |-> c]
BibVarPtr(p) == [kind |-> "*BibVar", ptr |-> p]
BibCompositePtr(p) == [kind |-> "*BibComposite", ptr |-> p]

NewBibConst(c) == BibConst(c)

\* The elements of the composite p points at: the first len slots of its array.
Elems(p) == SubSeq(arrays[comps[p].arr], 1, comps[p].len)

\* The values a value refers to directly.
Children(v) ==
    CASE v.kind = "*BibVar" -> { bibvars[v.ptr].Value }
      [] v.kind = "*BibComposite" -> { Elems(v.ptr)[i] : i \in 1..comps[v.ptr].len }
      [] OTHER -> {}

RECURSIVE ReachFrom(_)
ReachFrom(S) ==
    LET N == S \cup UNION { Children(v) : v \in S }
    IN  IF N = S THEN S ELSE ReachFrom(N)

\* String() of v recurses without end: a value reachable from v contains
\* itself.
Diverges(v) == \E w \in ReachFrom({v}) : w \in ReachFrom(Children(w))

(***************************************************************************)
(* String() and RawString() of the three BibString implementations.  A     *)
(* method call on an interface value dispatches on the dynamic type.       *)
(***************************************************************************)
BibConst_RawString(c) == <<"{">> \o c \o <<"}">>

BibVar_RawString(p) == bibvars[p].Key

RECURSIVE BibComposite_RawString(_), BibComposite_RawLoop(_, _)

\* The body of the range loop of BibComposite.RawString from index i on; the
\* type switch has cases for *BibConst, *BibVar and *BibComposite only.
BibComposite_RawLoop(ss, i) ==
    IF i > Len(ss) THEN <<>>
    ELSE LET comp == ss[i]
         IN  (IF i > 1 THEN <<" ", "#", " ">> ELSE <<>>)
             \o (CASE comp.kind = "*BibConst" -> BibConst_RawString(comp.text)
                   [] comp.kind = "*BibVar" -> BibVar_RawString(comp.ptr)
                   [] comp.kind = "*BibComposite" -> BibComposite_RawString(comp.ptr)
                   [] OTHER -> <<>>)
             \o BibComposite_RawLoop(ss, i + 1)

BibComposite_RawString(p) == BibComposite_RawLoop(Elems(p), 1)

ValueRawString(v) ==
    CASE v.kind = "BibConst" -> BibConst_RawString(v.text)
      [] v.kind = "*BibConst" -> BibConst_RawString(v.text)
      [] v.kind = "*BibVar" -> BibVar_RawString(v.ptr)
      [] v.kind = "*BibComposite" -> BibComposite_RawString(v.ptr)

RECURSIVE ValueString(_), BibComposite_StringLoop(_)

BibConst_String(c) == c

\* A BibVar.String that asks its value for the raw form.
BibVar_String_Raw(p) == ValueRawString(bibvars[p].Value)

BibVar_String(p) == ValueString(bibvars[p].Value)

BibComposite_StringLoop(ss) ==
    IF ss = <<>> THEN <<>>
    ELSE ValueString(Head(ss)) \o BibComposite_StringLoop(Tail(ss))

BibComposite_String(p) == BibComposite_StringLoop(Elems(p))

ValueString(v) ==
    CASE v.kind = "BibConst" -> BibConst_String(v.text)
      [] v.kind = "*BibConst" -> BibConst_String(v.text)
      [] v.kind = "*BibVar" -> BibVar_String(v.ptr)
      [] v.kind = "*BibComposite" -> BibComposite_String(v.ptr)

(***************************************************************************)
(* The library functions the package calls, on ASCII text.                 *)
(***************************************************************************)
UpperCase == <<"A", "B", "C", "D", "E", "F", "G", "H", "I", "J", "K", "L", "M",
               "N", "O", "P", "Q", "R", "S", "T", "U", "V", "W", "X", "Y", "Z">>
LowerCase == <<"a", "b", "c", "d", "e", "f", "g", "h", "i", "j", "k", "l", "m",
               "n", "o", "p", "q", "r", "s", "t", "u", "v", "w", "x", "y", "z">>
Digits == <<"0", "1", "2", "3", "4", "5", "6", "7", "8", "9">>
WhiteSpace == {" ", "\t", "\n", "\r", "\f"}

IndexIn(ch, seq) == CHOOSE i \in 1..Len(seq) : seq[i] = ch

\* strings.ToLower
ToLower(s) ==
    [i \in 1..Len(s) |->
        IF \E j \in 1..26 : UpperCase[j] = s[i]
        THEN LowerCase[IndexIn(s[i], UpperCase)] ELSE s[i]]

\* strings.NewReplacer(" ", "").Replace
RECURSIVE StripSpaces(_)
StripSpaces(s) ==
    IF s = <<>> THEN <<>>
    ELSE IF Head(s) = " " THEN StripSpaces(Tail(s))
    ELSE <<Head(s)>> \o StripSpaces(Tail(s))

\* strings.TrimSpace
RECURSIVE TrimLeft(_), TrimRight(_)
TrimLeft(s) ==
    IF s # <<>> /\ Head(s) \in WhiteSpace THEN TrimLeft(Tail(s)) ELSE s
TrimRight(s) ==
    IF s # <<>> /\ s[Len(s)] \in WhiteSpace
    THEN TrimRight(SubSeq(s, 1, Len(s) - 1)) ELSE s
TrimSpace(s) == TrimRight(TrimLeft(s))

\* strings.ContainsAny
ContainsAny(s, chars) == \E i \in 1..Len(s) : s[i] \in chars

\* strings.Repeat(" ", n)
Spaces(n) == [i \in 1..n |-> " "]

IsDigit(ch) == \E j \in 1..10 : Digits[j] = ch

RECURSIVE DigitsValue(_, _)
DigitsValue(s, n) ==
    IF s = <<>> THEN n
    ELSE DigitsValue(Tail(s), n * 10 + (IndexIn(Head(s), Digits) - 1))

\* strconv.Atoi on a string shorter than 19 bytes: an optional sign, then
\* one or more decimal digits; err is nil exactly when ok.
Atoi(s) ==
    IF s = <<>> THEN [ok |-> FALSE, n |-> 0]
    ELSE LET signed == s[1] \in {"-", "+"}
             ds == IF signed THEN Tail(s) ELSE s
         IN  IF ds = <<>> \/ \E i \in 1..Len(ds) : ~IsDigit(ds[i])
             THEN [ok |-> FALSE, n |-> 0]
             ELSE [ok |-> TRUE,
                   n |-> IF s[1] = "-" THEN 0 - DigitsValue(ds, 0)
                         ELSE DigitsValue(ds, 0)]

\* The verb %d of fmt.Sprintf.
RECURSIVE NatToDec(_)
NatToDec(n) ==
    IF n < 10 THEN <<Digits[n + 1]>>
    ELSE NatToDec(n \div 10) \o <<Digits[(n % 10) + 1]>>
FormatInt(n) == IF n < 0 THEN <<"-">> \o NatToDec(0 - n) ELSE NatToDec(n)

\* bytes.Buffer.Truncate(n)
Truncate(buf, n) == SubSeq(buf, 1, n)

(***************************************************************************)
(* The built-in append on a []BibString, as the gc runtime grows slices:   *)
(* in place when the capacity allows, else into a new array of capacity    *)
(* max(newLen, 2*cap) (16-byte elements, capacities below 256).            *)
(***************************************************************************)
EmptyComposite == [arr |-> 0, len |-> 0]

Cap(hdr) == IF hdr.arr = 0 THEN 0 ELSE Len(arrays[hdr.arr])

GrowCap(oldCap, newLen) == IF newLen > 2 * oldCap THEN newLen ELSE 2 * oldCap

GoAppend(hdr, s) ==
    IF hdr.len + 1 <= Cap(hdr)
    THEN [arrays |-> [arrays EXCEPT ![hdr.arr][hdr.len + 1] = s],
          hdr |-> [arr |-> hdr.arr, len |-> hdr.len + 1]]
    ELSE LET old == IF hdr.arr = 0 THEN <<>> ELSE SubSeq(arrays[hdr.arr], 1, hdr.len)
             newCap == GrowCap(Cap(hdr), hdr.len + 1)
             fresh == [i \in 1..newCap |->
                         IF i <= hdr.len THEN old[i]
                         ELSE IF i = hdr.len + 1 THEN s ELSE Nil]
         IN  [arrays |-> arrays \o <<fresh>>,
              hdr |-> [arr |-> Len(arrays) + 1, len |-> hdr.len + 1]]

(***************************************************************************)
(* The caller.                                                             *)
(***************************************************************************)
NoLookup == [key |-> <<>>, ret |-> Nil]
NoOut == [kind |-> "none"]

Consts(texts) == { NewBibConst(c) : c \in texts }
HeldVars == { BibVarPtr(h.ptr) : h \in held }
Composites == { BibCompositePtr(p) : p \in 1..Len(comps) }

\* A mutation of the bibliography or of a value ends the run of renderer
\* calls made on unchanged data.
Mutated == out' = [last |-> NoOut, prev |-> NoOut]

\* NewBibTex
Start ==
    /\ bibvars = <<>>
    /\ arrays = <<>>
    /\ comps = <<>>
    /\ StringVar = <<>>
    /\ Preambles = <<>>
    /\ entries = <<>>
    /\ Entries = <<>>
    /\ held = {}
    /\ halted = FALSE
    /\ lookup = NoLookup
    /\ out = [last |-> NoOut, prev |-> NoOut]

\* comp := append(*c, s); return &comp
AppendTo(hdr, s) ==
    LET r == GoAppend(hdr, s)
    IN  /\ arrays' = r.arrays
        /\ comps' = comps \o <<r.hdr>>
        /\ lookup' = NoLookup
        /\ Mutated
        /\ UNCHANGED <<bibvars, StringVar, Preambles, entries, Entries, held, halted, limit>>

NewBibComposite(s) ==
    /\ ~halted
    /\ Len(comps) < limit.comps
    /\ AppendTo(EmptyComposite, s)

BibComposite_Append(c, s) ==
    /\ ~halted
    /\ Len(comps) < limit.comps
    /\ AppendTo(comps[c], s)

AddStringVar(key, val) ==
    /\ ~halted
    /\ Len(bibvars) < limit.vars
    /\ bibvars' = bibvars \o <<[Key |-> key, Value |-> val]>>
    /\ StringVar' = [k \in DOMAIN StringVar \cup {key} |->
                       IF k = key THEN Len(bibvars) + 1 ELSE StringVar[k]]
    /\ lookup' = NoLookup
    /\ Mutated
    /\ UNCHANGED <<arrays, comps, Preambles, entries, Entries, held, halted, limit>>

\* A GetStringVar that logs and returns nil for an unknown key.
GetStringVar_NoFatal(key) ==
    /\ ~halted
    /\ IF key \in DOMAIN StringVar
       THEN /\ held' = held \cup {[key |-> key, ptr |-> StringVar[key]]}
            /\ lookup' = [key |-> key, ret |-> BibVarPtr(StringVar[key])]
       ELSE /\ lookup' = [key |-> key, ret |-> Nil]
            /\ UNCHANGED held
    /\ UNCHANGED <<bibvars, arrays, comps, StringVar, Preambles, entries, Entries, out,
                   halted, limit>>

GetStringVar(key) ==
    /\ ~halted
    /\ IF key \in DOMAIN StringVar
       THEN /\ held' = held \cup {[key |-> key, ptr |-> StringVar[key]]}
            /\ lookup' = [key |-> key, ret |-> BibVarPtr(StringVar[key])]
            /\ UNCHANGED halted
       ELSE /\ halted' = TRUE
            /\ lookup' = [key |-> key, ret |-> Nil]
            /\ UNCHANGED held
    /\ UNCHANGED <<bibvars, arrays, comps, StringVar, Preambles, entries, Entries, out, limit>>

\* NewBibEntry: the type lowercased with its spaces removed, the cite name
\* with its spaces removed, no fields.
NewBibEntry(entryType, citeName) ==
    /\ ~halted
    /\ Len(entries) < limit.entries
    /\ entries' = entries \o <<[Type |-> ToLower(StripSpaces(entryType)),
                                CiteName |-> StripSpaces(citeName),
                                Fields |-> <<>>]>>
    /\ lookup' = NoLookup
    /\ Mutated
    /\ UNCHANGED <<bibvars, arrays, comps, StringVar, Preambles, Entries, held, halted, limit>>

\* entry.Fields[strings.TrimSpace(name)] = value
AddField(entry, name, value) ==
    /\ ~halted
    /\ LET fs == entries[entry].Fields
           key == TrimSpace(name)
       IN  entries' = [entries EXCEPT ![entry].Fields =
                          [k \in DOMAIN fs \cup {key} |->
                              IF k = key THEN value ELSE fs[k]]]
    /\ lookup' = NoLookup
    /\ Mutated
    /\ UNCHANGED <<bibvars, arrays, comps, StringVar, Preambles, Entries, held, halted, limit>>

AddPreamble(p) ==
    /\ ~halted
    /\ Len(Preambles) < limit.preambles
    /\ Preambles' = Preambles \o <<p>>
    /\ lookup' = NoLookup
    /\ Mutated
    /\ UNCHANGED <<bibvars, arrays, comps, StringVar, entries, Entries, held, halted, limit>>

AddEntry(entry) ==
    /\ ~halted
    /\ Len(Entries) < limit.entries
    /\ Entries' = Entries \o <<entry>>
    /\ lookup' = NoLookup
    /\ Mutated
    /\ UNCHANGED <<bibvars, arrays, comps, StringVar, Preambles, entries, held, halted, limit>>

(***************************************************************************)
(* The three renderers.  A range over a Go map visits the keys in an       *)
(* order the runtime chooses anew for every loop: a renderer takes the     *)
(* order of each map loop it runs as a parameter.                          *)
(***************************************************************************)
RECURSIVE Perms(_)
Perms(S) ==
    IF S = {} THEN {<<>>}
    ELSE UNION { { <<x>> \o q : q \in Perms(S \ {x}) } : x \in S }

\* The orders the loops over entry.Fields can take, one per entry of es.
RECURSIVE FieldOrders(_)
FieldOrders(es) ==
    IF es = <<>> THEN {<<>>}
    ELSE { <<h>> \o t : h \in Perms(DOMAIN entries[Head(es)].Fields),
                        t \in FieldOrders(Tail(es)) }

\* fmt.Sprintf("@%s{%s,\n", entry.Type, entry.CiteName)
EntryHeader(entry) ==
    <<"@">> \o entry.Type \o <<"{">> \o entry.CiteName \o <<",", "\n">>

\* The body of the field loop of BibTex.String.
String_Field(key, val) ==
    LET a == Atoi(TrimSpace(ValueString(val)))
    IN  IF a.ok
        THEN <<" ", " ">> \o key \o <<" ", "=", " ">> \o FormatInt(a.n) \o <<",", "\n">>
        ELSE <<" ", " ">> \o key \o <<" ", "=", " ", "{">>
                 \o TrimSpace(ValueString(val)) \o <<"}", ",", "\n">>

\* A RawString field loop that tests the resolved text untrimmed.
RawString_Field_NoTrim(key, val) ==
    LET a == Atoi(ValueString(val))
    IN  IF a.ok
        THEN <<" ", " ">> \o key \o <<" ", "=", " ">> \o FormatInt(a.n) \o <<",", "\n">>
        ELSE <<" ", " ">> \o key \o <<" ", "=", " ">>
                 \o ValueRawString(val) \o <<",", "\n">>

\* The body of the field loop of BibTex.RawString.
RawString_Field(key, val) ==
    LET a == Atoi(TrimSpace(ValueString(val)))
    IN  IF a.ok
        THEN <<" ", " ">> \o key \o <<" ", "=", " ">> \o FormatInt(a.n) \o <<",", "\n">>
        ELSE <<" ", " ">> \o key \o <<" ", "=", " ">>
                 \o ValueRawString(val) \o <<",", "\n">>

\* The body of the second field loop of BibTex.PrettyString.
PrettyString_Field(key, val, keylen) ==
    LET a == Atoi(TrimSpace(ValueString(val)))
        pad == Spaces(keylen - Len(key))
    IN  IF a.ok
        THEN <<" ", " ">> \o key \o pad \o <<" ", "=", " ">>
                 \o FormatInt(a.n) \o <<",", "\n">>
        ELSE IF ContainsAny(ValueString(val), {"\"", "{", "}"})
        THEN <<" ", " ">> \o key \o pad \o <<" ", "=", " ", "{">>
                 \o ValueString(val) \o <<"}", ",", "\n">>
        ELSE <<" ", " ">> \o key \o pad \o <<" ", "=", " ", "\"">>
                 \o ValueString(val) \o <<"\"", ",", "\n">>

\* The first field loop of BibTex.PrettyString: the longest key.
RECURSIVE MaxKeyLen(_)
MaxKeyLen(keys) ==
    IF keys = {} THEN 0
    ELSE LET k == CHOOSE x \in keys : TRUE
             m == MaxKeyLen(keys \ {k})
         IN  IF Len(k) > m THEN Len(k) ELSE m

RECURSIVE String_Fields(_, _, _), RawString_Fields(_, _, _), PrettyString_Fields(_, _, _, _)
String_Fields(buf, entry, order) ==
    IF order = <<>> THEN buf
    ELSE String_Fields(buf \o String_Field(Head(order), entry.Fields[Head(order)]),
                       entry, Tail(order))

RawString_Fields(buf, entry, order) ==
    IF order = <<>> THEN buf
    ELSE RawString_Fields(buf \o RawString_Field(Head(order), entry.Fields[Head(order)]),
                          entry, Tail(order))

PrettyString_Fields(buf, entry, order, keylen) ==
    IF order = <<>> THEN buf
    ELSE PrettyString_Fields(
             buf \o PrettyString_Field(Head(order), entry.Fields[Head(order)], keylen),
             entry, Tail(order), keylen)

\* The loop over bib.Entries of BibTex.String from entry i on.
RECURSIVE String_Entries(_, _, _)
String_Entries(buf, i, fo) ==
    IF i > Len(Entries) THEN buf
    ELSE LET entry == entries[Entries[i]]
             b1 == String_Fields(buf \o EntryHeader(entry), entry, fo[i])
             b2 == Truncate(b1, Len(b1) - 2)
         IN  String_Entries(b2 \o <<"\n", "}", "\n">>, i + 1, fo)

BibTex_String(fo) == String_Entries(<<>>, 1, fo)

\* The three loops of BibTex.RawString.
RECURSIVE RawString_Vars(_, _), RawString_Preambles(_, _), RawString_Entries(_, _, _)
RawString_Vars(buf, vo) ==
    IF vo = <<>> THEN buf
    ELSE RawString_Vars(
             buf \o <<"@", "s", "t", "r", "i", "n", "g", "{">> \o Head(vo)
                 \o <<" ", "=", " ", "{">> \o BibVar_String(StringVar[Head(vo)])
                 \o <<"}", "}", "\n">>,
             Tail(vo))

RawString_Preambles(buf, i) ==
    IF i > Len(Preambles) THEN buf
    ELSE RawString_Preambles(
             buf \o <<"@", "p", "r", "e", "a", "m", "b", "l", "e", "{">>
                 \o ValueRawString(Preambles[i]) \o <<"}", "\n">>,
             i + 1)

RawString_Entries(buf, i, fo) ==
    IF i > Len(Entries) THEN buf
    ELSE LET entry == entries[Entries[i]]
             b1 == RawString_Fields(buf \o EntryHeader(entry), entry, fo[i])
             b2 == Truncate(b1, Len(b1) - 2)
         IN  RawString_Entries(b2 \o <<"\n", "}", "\n">>, i + 1, fo)

\* A RawString that writes the preambles before the variables.
BibTex_RawString_PreamblesFirst(vo, fo) ==
    RawString_Entries(RawString_Vars(RawString_Preambles(<<>>, 1), vo), 1, fo)

BibTex_RawString(vo, fo) ==
    RawString_Entries(RawString_Preambles(RawString_Vars(<<>>, vo), 1), 1, fo)

RECURSIVE PrettyString_Entries(_, _, _)
PrettyString_Entries(buf, i, fo) ==
    IF i > Len(Entries) THEN buf
    ELSE LET entry == entries[Entries[i]]
             keylen == MaxKeyLen(DOMAIN entry.Fields)
             b1 == PrettyString_Fields(buf \o EntryHeader(entry), entry, fo[i], keylen)
         IN  PrettyString_Entries(b1 \o <<"}", "\n">>, i + 1, fo)

BibTex_PrettyString(fo) == PrettyString_Entries(<<>>, 1, fo)

\* RawString() of a value recurses through composites only.
RawChildren(v) == IF v.kind = "*BibComposite" THEN Children(v) ELSE {}

RECURSIVE RawReachFrom(_)
RawReachFrom(S) ==
    LET N == S \cup UNION { RawChildren(v) : v \in S }
    IN  IF N = S THEN S ELSE RawReachFrom(N)

RawDiverges(v) == \E w \in RawReachFrom({v}) : w \in RawReachFrom(RawChildren(w))

FieldValues ==
    UNION { { entries[Entries[i]].Fields[k] : k \in DOMAIN entries[Entries[i]].Fields }
            : i \in 1..Len(Entries) }

\* The renderer recurses without end and the runtime kills the process.
Overflows(kind) ==
    \/ \E v \in FieldValues : Diverges(v)
    \/ /\ kind = "RawString"
       /\ \/ \E k \in DOMAIN StringVar : Diverges(BibVarPtr(StringVar[k]))
          \/ \E i \in 1..Len(Preambles) : RawDiverges(Preambles[i])

\* A renderer call: it returns one of texts to the caller, or never returns.
Render(kind, texts) ==
    /\ IF Overflows(kind)
       THEN halted' = TRUE /\ UNCHANGED out
       ELSE /\ \E text \in texts :
                 out' = [last |-> [kind |-> kind, text |-> text],
                         prev |-> IF out.last.kind = kind THEN out.last ELSE NoOut]
            /\ UNCHANGED halted
    /\ lookup' = NoLookup
    /\ UNCHANGED <<bibvars, arrays, comps, StringVar, Preambles, entries, Entries, held,
                   limit>>

String ==
    /\ ~halted
    /\ Render("String", { BibTex_String(fo) : fo \in FieldOrders(Entries) })

RawString ==
    /\ ~halted
    /\ Render("RawString",
              { BibTex_RawString(vo, fo) :
                  vo \in Perms(DOMAIN StringVar), fo \in FieldOrders(Entries) })

PrettyString ==
    /\ ~halted
    /\ Render("PrettyString", { BibTex_PrettyString(fo) : fo \in FieldOrders(Entries) })

(***************************************************************************)
(* Composites only: the caller builds composites out of constants and      *)
(* other composites.                                                       *)
(***************************************************************************)
Limit(c, v, e, p) == [comps |-> c, vars |-> v, entries |-> e, preambles |-> p]

CompositeValues == Consts(CompositeTexts) \cup Composites

InitComposite == Start /\ limit = Limit(MaxComps, 0, 0, 0)

NextComposite ==
    \/ \E s \in CompositeValues : NewBibComposite(s)
    \/ \E c \in 1..Len(comps), s \in CompositeValues : BibComposite_Append(c, s)

SpecComposite == InitComposite /\ [][NextComposite]_vars

(***************************************************************************)
(* The variable table: the caller defines, redefines and looks up string   *)
(* variables and builds values out of them.                                *)
(***************************************************************************)
TableValues == Consts(TableTexts) \cup HeldVars \cup Composites

InitTable == Start /\ limit = Limit(MaxTableComps, MaxVars, 0, 0)

NextTable ==
    \/ \E s \in TableValues : NewBibComposite(s)
    \/ \E c \in 1..Len(comps), s \in TableValues : BibComposite_Append(c, s)
    \/ \E key \in VarKeys, val \in TableValues : AddStringVar(key, val)
    \/ \E key \in VarKeys : GetStringVar(key)

SpecTable == InitTable /\ [][NextTable]_vars

(***************************************************************************)
(* One bibliography rendered by the three renderers: the caller fills      *)
(* entries with constants and variable references and renders.             *)
(***************************************************************************)
RenderValues == Consts(RenderTexts) \cup HeldVars

InitRender == Start /\ limit = Limit(0, MaxRenderVars, MaxEntries, 0)

NextRender ==
    \/ \E t \in EntryTypes, n \in CiteNames : NewBibEntry(t, n)
    \/ \E e \in 1..Len(entries), n \in FieldNames, v \in RenderValues : AddField(e, n, v)
    \/ \E e \in 1..Len(entries) : AddEntry(e)
    \/ \E key \in VarKeys, val \in Consts(RenderTexts) : AddStringVar(key, val)
    \/ \E key \in VarKeys : GetStringVar(key)
    \/ String
    \/ RawString
    \/ PrettyString

SpecRender == InitRender /\ [][NextRender]_vars

(***************************************************************************)
(* The raw rendering, next to the simplified one, of a bibliography with   *)
(* variables and preambles bound to constants, and entries whose fields    *)
(* are constants and variable references.                                  *)
(***************************************************************************)
RawValues == Consts(RawTexts) \cup HeldVars

InitRaw == Start /\ limit = Limit(0, MaxRawVars, MaxRawEntries, MaxPreambles)

NextRaw ==
    \/ \E key \in VarKeys, val \in Consts(RawTexts) : AddStringVar(key, val)
    \/ \E key \in VarKeys : GetStringVar(key)
    \/ \E v \in Consts(RawTexts) : AddPreamble(v)
    \/ \E t \in EntryTypes, n \in RawCiteNames : NewBibEntry(t, n)
    \/ \E e \in 1..Len(entries), n \in RawFieldNames, v \in RawValues : AddField(e, n, v)
    \/ \E e \in 1..Len(entries) : AddEntry(e)
    \/ String
    \/ RawString

SpecRaw == InitRaw /\ [][NextRaw]_vars

(***************************************************************************)
(* Properties of values and of the variable table.                         *)
(***************************************************************************)
\* The texts of ss one after the other.
RECURSIVE Concat(_)
Concat(ss) == IF ss = <<>> THEN <<>> ELSE Head(ss) \o Concat(Tail(ss))

\* The texts of ss joined by " # ".
RECURSIVE JoinHash(_)
JoinHash(ss) ==
    IF ss = <<>> THEN <<>>
    ELSE IF Len(ss) = 1 THEN ss[1]
    ELSE ss[1] \o <<" ", "#", " ">> \o JoinHash(Tail(ss))

\* C1: String() of a composite built from v1..vn is the concatenation of
\* String(vi), and its RawString() is RawString(v1) # ... # RawString(vn),
\* every element, constants included, contributing its own raw form.
C1_CompositeOfParts ==
    \A p \in 1..Len(comps) :
        ~Diverges(BibCompositePtr(p)) =>
            LET vs == Elems(p)
            IN  /\ BibComposite_String(p)
                     = Concat([i \in 1..Len(vs) |-> ValueString(vs[i])])
                /\ BibComposite_RawString(p)
                     = JoinHash([i \in 1..Len(vs) |-> ValueRawString(vs[i])])

\* The value at the end of the chain of variable references starting at v.
RECURSIVE Chase(_)
Chase(v) == IF v.kind = "*BibVar" THEN Chase(bibvars[v.ptr].Value) ELSE v

\* The number of variable references on that chain.
RECURSIVE Depth(_)
Depth(v) == IF v.kind = "*BibVar" THEN 1 + Depth(bibvars[v.ptr].Value) ELSE 0

\* C2: a variable reference obtained from the bibliography whose binding
\* leads through variable references to a constant resolves to that
\* constant's text, and its raw form is always the key it was looked up by.
C2_VarResolves ==
    \A h \in held :
        LET r == BibVarPtr(h.ptr)
        IN  /\ ValueRawString(r) = h.key
            /\ Chase(r).kind = "BibConst" => ValueString(r) = Chase(r).text

C2_Witness ==
    \E h \in held :
        /\ Depth(BibVarPtr(h.ptr)) >= 2
        /\ Chase(BibVarPtr(h.ptr)).kind = "BibConst"
        /\ Chase(BibVarPtr(h.ptr)).text # h.key

\* C3: Append is persistent: a call leaves the element sequence of every
\* composite that existed before it as it was.
C3_AppendPersistent ==
    [][\A p \in 1..Len(comps) : Elems(p)' = Elems(p)]_vars

\* C4: every variable reference the caller holds, also one obtained before
\* its key was redefined, resolves to what the key is bound to now.
C4_CurrentBinding ==
    \A h \in held :
        ~Diverges(BibVarPtr(h.ptr)) =>
            ValueString(BibVarPtr(h.ptr)) = ValueString(BibVarPtr(StringVar[h.key]))

\* C5: GetStringVar returns the definition bound to the key when there is
\* one and terminates the process when there is none; it leaves the table
\* as it was, and no operation runs once the process has terminated.
C5_LookupOrFatal ==
    [][/\ ~halted
       /\ \A key \in VarKeys :
            lookup'.key = key =>
                /\ StringVar' = StringVar
                /\ bibvars' = bibvars
                /\ IF key \in DOMAIN StringVar
                   THEN /\ lookup'.ret = BibVarPtr(StringVar[key])
                        /\ bibvars[StringVar[key]].Key = key
                        /\ ~halted'
                   ELSE /\ lookup'.ret = Nil
                        /\ halted']_vars

C5_Witness ==
    /\ halted
    /\ lookup.key \in VarKeys \ DOMAIN StringVar
    /\ DOMAIN StringVar # {}

\* C10: no sequence of operations yields a value that contains itself, so
\* String() and RawString() of every value return.
C10_NoSelfContainment ==
    \A p \in 1..Len(comps) : ~Diverges(BibCompositePtr(p))

(***************************************************************************)
(* Properties of the renderers.                                            *)
(***************************************************************************)
IsSubstring(sub, text) ==
    \E i \in 1..(Len(text) - Len(sub) + 1) : SubSeq(text, i, i + Len(sub) - 1) = sub

\* C6: the same renderer called twice on unchanged data returns the same
\* text both times.
C6_Deterministic == out.prev # NoOut => out.last.text = out.prev.text

\* The value text of a field in the simplified rendering.
SimplifiedValue(v) ==
    LET t == TrimSpace(ValueString(v))
    IN  IF Atoi(t).ok THEN FormatInt(Atoi(t).n) ELSE <<"{">> \o t \o <<"}">>

\* The value text of a field in the raw rendering.
RawValue(v) ==
    LET t == TrimSpace(ValueString(v))
    IN  IF Atoi(t).ok THEN FormatInt(Atoi(t).n) ELSE ValueRawString(v)

\* The lines "  name = value," of the fields in order, the last one without
\* its comma; vt[i] is the value text of field order[i].
FieldLines(order, vt) ==
    Concat([i \in 1..Len(order) |->
               <<" ", " ">> \o order[i] \o <<" ", "=", " ">> \o vt[i]
                   \o (IF i < Len(order) THEN <<",">> ELSE <<>>) \o <<"\n">>])

\* The header line intact, the field lines, the closing line.
EntryText(entry, order, vt) ==
    <<"@">> \o entry.Type \o <<"{">> \o entry.CiteName \o <<",", "\n">>
        \o FieldLines(order, vt) \o <<"}", "\n">>

\* C7: String() emits the entries in AddEntry order, each as its header
\* line, a line per field with the comma after the last one removed, and a
\* closing line, whatever the number of fields.
C7_SimplifiedEntries ==
    out.last.kind = "String" =>
        \E fo \in FieldOrders(Entries) :
            out.last.text =
                Concat([i \in 1..Len(Entries) |->
                    LET entry == entries[Entries[i]]
                    IN  EntryText(entry, fo[i],
                            [j \in 1..Len(fo[i]) |->
                                SimplifiedValue(entry.Fields[fo[i][j]])])])

\* The last renderer call wrote, for field key, a line with value text x.
Emitted(key, pad, x) ==
    LET line == <<"\n", " ", " ">> \o key \o pad \o <<" ", "=", " ">> \o x
    IN  \/ IsSubstring(line \o <<",", "\n">>, out.last.text)
        \/ IsSubstring(line \o <<"\n", "}">>, out.last.text)

Quoted(s) == { <<"{">> \o s \o <<"}">>, <<"\"">> \o s \o <<"\"">> }

\* What the last renderer call wrote for every field of every entry:
\* ifNot(kind, v) is the set of value texts allowed for a field whose
\* resolved text is no integer.
FieldsEmitted(kind, entry, key, other) ==
    LET v == entry.Fields[key]
        a == Atoi(TrimSpace(ValueString(v)))
        pad == IF kind = "PrettyString"
               THEN Spaces(MaxKeyLen(DOMAIN entry.Fields) - Len(key)) ELSE <<>>
    IN  IF a.ok THEN Emitted(key, pad, FormatInt(a.n))
        ELSE \E x \in other : Emitted(key, pad, x)

\* C8 as claimed: in each of the three renderers a field is written as a
\* bare integer when its trimmed resolved text parses as one, and as a
\* quoted string when it does not.
C8_NumericOrQuoted ==
    out.last.kind \in {"String", "RawString", "PrettyString"} =>
        \A i \in 1..Len(Entries) :
            LET entry == entries[Entries[i]]
            IN  \A key \in DOMAIN entry.Fields :
                    LET s == ValueString(entry.Fields[key])
                    IN  FieldsEmitted(out.last.kind, entry, key,
                                      Quoted(s) \cup Quoted(TrimSpace(s)))

\* C8 as amended: a field whose trimmed resolved text is no integer is
\* written brace-quoted and trimmed by String, quoted by PrettyString, and
\* as the RawString() of its value by RawString.
C8_NumericOrText ==
    out.last.kind \in {"String", "RawString", "PrettyString"} =>
        \A i \in 1..Len(Entries) :
            LET entry == entries[Entries[i]]
            IN  \A key \in DOMAIN entry.Fields :
                    LET v == entry.Fields[key]
                        s == ValueString(v)
                    IN  FieldsEmitted(out.last.kind, entry, key,
                            CASE out.last.kind = "String" ->
                                    { <<"{">> \o TrimSpace(s) \o <<"}">> }
                              [] out.last.kind = "PrettyString" -> Quoted(s)
                              [] out.last.kind = "RawString" -> { ValueRawString(v) })

C8_Witness ==
    /\ out.last.kind = "RawString"
    /\ \E i \in 1..Len(Entries) :
         LET fs == entries[Entries[i]].Fields
         IN  \E k1, k2 \in DOMAIN fs :
                /\ Atoi(TrimSpace(ValueString(fs[k1]))).ok
                /\ ~Atoi(ValueString(fs[k1])).ok
                /\ fs[k2].kind = "*BibVar"
                /\ ~Atoi(TrimSpace(ValueString(fs[k2]))).ok

\* The shape String() gives an entry: the header line, a line per field,
\* the last two bytes written so far replaced by the closing line.
SimplifiedShape(entry, order, vt) ==
    IF order = <<>>
    THEN <<"@">> \o entry.Type \o <<"{">> \o entry.CiteName \o <<"\n", "}", "\n">>
    ELSE <<"@">> \o entry.Type \o <<"{">> \o entry.CiteName \o <<",", "\n">>
             \o FieldLines(order, vt) \o <<"}", "\n">>

\* C9: RawString() writes a line @string{key = {resolved text}} per
\* variable, then a line @preamble{raw text} per preamble in AddPreamble
\* order, then the entries in AddEntry order in the shape String() gives them,
\* a field that is no integer written as the RawString() of its value.
C9_RawSections ==
    /\ out.last.kind = "RawString" =>
         \E vo \in Perms(DOMAIN StringVar), fo \in FieldOrders(Entries) :
            out.last.text =
                Concat([i \in 1..Len(vo) |->
                    <<"@", "s", "t", "r", "i", "n", "g", "{">> \o vo[i]
                        \o <<" ", "=", " ", "{">>
                        \o ValueString(bibvars[StringVar[vo[i]]].Value)
                        \o <<"}", "}", "\n">>])
                \o Concat([i \in 1..Len(Preambles) |->
                    <<"@", "p", "r", "e", "a", "m", "b", "l", "e", "{">>
                        \o ValueRawString(Preambles[i]) \o <<"}", "\n">>])
                \o Concat([i \in 1..Len(Entries) |->
                    LET entry == entries[Entries[i]]
                    IN  SimplifiedShape(entry, fo[i],
                            [j \in 1..Len(fo[i]) |-> RawValue(entry.Fields[fo[i][j]])])])
    /\ out.last.kind = "String" =>
         \E fo \in FieldOrders(Entries) :
            out.last.text =
                Concat([i \in 1..Len(Entries) |->
                    LET entry == entries[Entries[i]]
                    IN  SimplifiedShape(entry, fo[i],
                            [j \in 1..Len(fo[i]) |->
                                SimplifiedValue(entry.Fields[fo[i][j]])])])

C9_Witness ==
    /\ out.last.kind = "RawString"
    /\ Cardinality(DOMAIN StringVar) = 2
    /\ Len(Preambles) = 2
    /\ Preambles[1] # Preambles[2]
    /\ Len(Entries) = 2
    /\ Entries[1] # Entries[2]
    /\ \E k \in DOMAIN entries[Entries[1]].Fields :
         entries[Entries[1]].Fields[k].kind = "*BibVar"
    /\ \E k \in DOMAIN entries[Entries[2]].Fields :
         entries[Entries[2]].Fields[k] = NewBibConst(<<"7">>)

====
